---- MODULE Spec2Model ----
(***************************************************************************)
(* State-machine model of src/Generator.py: the Transformer (masks,        *)
(* multi-head attention, encoder/decoder stacks, positional encoding),     *)
(* the TextToImage convolutional generator and the Network wrapper.        *)
(*                                                                         *)
(* Tensors are modelled by their shape and their entries; an entry is an   *)
(* integer where the code computes integers (masks), and a symbolic term   *)
(* where the code computes floating point values (embeddings, sinusoids,   *)
(* attention results).  Indices are 0-based tuples as in the source.       *)
(***************************************************************************)
EXTENDS Integers, Sequences, FiniteSets, TLC

VARIABLES
    \* ---- masks and their use in scaled_dot_product_attention
    m_pc,          \* "start", "masked", "done"
    m_kind,        \* which mask constructor the caller uses
    seq,           \* create_padding_mask: the integer batch, [0..B-1 -> [0..L-1 -> id]]
    size,          \* create_look_ahead_mask: the size argument
    m_shape,       \* shape of scaled_attention_logits, <<batch, heads, seq_q, seq_k>>
    mask,          \* the mask tensor returned by the constructor
    scaled_attention_logits   \* line 34/37: the logits before and after masking

maskVars == <<m_pc, m_kind, seq, size, m_shape, mask, scaled_attention_logits>>

VARIABLES
    \* ---- MultiHeadedAttention.call
    h_pc,          \* position in MultiHeadedAttention.call
    mha,           \* the layer object: [d_model, num_heads, depth]
    h_in,          \* shapes of the arguments: [batch, seq_q, seq_k]
    mha_q, mha_k, mha_v,   \* the tensors named q, k, v in call (after each assignment)
    scaled_attention,   \* line 74: first result of scaled_dot_product_attention
    attention_weights,  \* line 74: second result
    transposed,         \* line 75: scaled_attention after tf.transpose
    concat_attention    \* line 77

headVars == <<h_pc, mha, h_in, mha_q, mha_k, mha_v, scaled_attention, attention_weights,
              transposed, concat_attention>>

VARIABLES
    \* ---- construction and call of Network / Transformer
    n_pc,          \* position in the constructors and in the call chain
    entry,         \* "Network": Network() and Network.call; "Transformer": used directly
    cfg,           \* constructor arguments [num_layers, d_model, num_heads]
    built,         \* the MultiHeadedAttention constructions so far, in order
    caller,        \* the arguments the caller gave to the entry's call
    tr,            \* the arguments Transformer.call received
    enc_i, enc_x, enc_log,      \* Encoder.call: loop index, x, the layer calls made
    enc_output,                 \* Transformer.call line 217
    dec_i, dec_x, dec_log,      \* Decoder.call: loop index, x, the layer calls made
    dec_attention_weights,      \* Decoder.call: the attention_weights dictionary
    ret,           \* what the entry's call returned
    generator_runs \* how often self.text_to_image was run on data inside Network.call

netVars == <<n_pc, entry, cfg, built, caller, tr, enc_i, enc_x, enc_log, enc_output,
             dec_i, dec_x, dec_log, dec_attention_weights, ret, generator_runs>>

VARIABLES
    \* ---- Decoder.call lines 191-197 on concrete shapes
    p_pc,          \* position in Decoder.call before the layer loop
    decoder,       \* the Decoder object: [d_model, maximum_position_encoding, pos_embedding]
    tar,           \* the target batch (one row), [0..seq_len-1 -> token id]
    p_training,    \* the training argument
    p_x            \* the tensor named x in Decoder.call

posVars == <<p_pc, decoder, tar, p_training, p_x>>

VARIABLES
    \* ---- construction of the generator graph: TextToImage() and resnet_block
    g_pc,          \* position in TextToImage / resnet_block
    g_entry,       \* "TextToImage", or "resnet_block" called on its own
    g_args,        \* resnet_block's arguments when called on its own
    model,         \* the symbolic tensor named model (shape without the batch axis)
    gen_model,     \* line 278
    g_blocks,      \* iterations of the loop of line 280 done
    g_adds         \* the layers.Add() applications made: [site, input, lhs, rhs]

genVars == <<g_pc, g_entry, g_args, model, gen_model, g_blocks, g_adds>>

vars == <<maskVars, headVars, netVars, posVars, genVars>>

\* ------------------------------------------------------------------ bounds
\* extents of the tensors and the sets the inputs are drawn from
MaxBatch == 2
MaxSeqLen == 2
MaxSize == 3
TokenIds == {0, 1, 2}
MaxHeads == 2
MaxDepth == 2
MaxLayers == 2
MaxDModel == 4
MaxTarLen == 2
MaxPositions == 3
TargetIds == {1, 2}
EmbeddingWidths == {2, 3, 4}
MaxSide == 2
MaxChannels == 2
MaxStride == 2
KernelSizes == {1, 3}

\* ------------------------------------------------------------------ program constants
NUM_LAYERS == 4
D_MODEL == 512
NUM_HEADS == 8

\* ------------------------------------------------------------- tensor helpers
None == "None"

\* the Python value None where a tensor is expected
NoTensor == [shape |-> <<-1>>, at |-> <<>>]

\* the index tuples of a tensor of the given shape (0-based, as in numpy / tf)
MaxExtent(shape) ==
    CHOOSE m \in {shape[k] : k \in 1..Len(shape)} : \A k \in 1..Len(shape) : shape[k] <= m

Indices(shape) ==
    {t \in [1..Len(shape) -> 0..(MaxExtent(shape) - 1)] :
        \A k \in 1..Len(shape) : t[k] < shape[k]}

\* Entry of tensor t seen at index idx of a tensor of higher or equal rank, under
\* numpy broadcasting: trailing axes are aligned, an axis of extent 1 is repeated.
BroadcastAt(t, idx) ==
    LET r == Len(t.shape)
        off == Len(idx) - r
    IN t.at[[k \in 1..r |-> IF t.shape[k] = 1 THEN 0 ELSE idx[k + off]]]

\* tf.ones(shape)
ones(shape) == [shape |-> shape, at |-> [t \in Indices(shape) |-> 1]]

\* tf.linalg.band_part(input, num_lower, num_upper) on a matrix:
\* in_band(m, n) = (num_lower < 0 || m-n <= num_lower) && (num_upper < 0 || n-m <= num_upper)
band_part(input, num_lower, num_upper) ==
    [shape |-> input.shape,
     at |-> [t \in Indices(input.shape) |->
               IF /\ (num_lower < 0 \/ t[1] - t[2] <= num_lower)
                  /\ (num_upper < 0 \/ t[2] - t[1] <= num_upper)
               THEN input.at[t] ELSE 0]]

\* ------------------------------------------------------------- parts not in use
\* Each specification below runs one part of the program; the variables of the other
\* parts keep these values.
\* A tensor value of the call chain: the result of operation op of layer `layer`
\* (-1 outside the stacks), whose dropouts ran with the given training flag.
Val(op, layer, training) == [op |-> op, layer |-> layer, training |-> training]

NoArgs == [training |-> FALSE, look_ahead_mask |-> None, dec_padding_mask |-> None,
           enc_padding_mask |-> None]
NoVal == Val(None, -1, FALSE)
NoRet == [kind |-> "unset", final_output |-> NoVal, attention_weights |-> <<>>]

NetRest ==
    /\ built = <<>> /\ caller = NoArgs /\ tr = NoArgs
    /\ enc_i = 0 /\ enc_x = NoVal /\ enc_log = <<>> /\ enc_output = NoVal
    /\ dec_i = 0 /\ dec_x = NoVal /\ dec_log = <<>> /\ dec_attention_weights = <<>>
    /\ ret = NoRet /\ generator_runs = 0

IdleNet ==
    /\ n_pc = "idle" /\ entry = None
    /\ cfg = [num_layers |-> 0, d_model |-> 0, num_heads |-> 0]
    /\ NetRest

\* A symbolic (Keras) tensor: its shape without the batch axis and the term that
\* computes it: the layer, the layer's parameters and the argument terms.
Term(op, params, args) == [op |-> op, p |-> params, args |-> args]
Sym(shape, term) == [shape |-> shape, term |-> term]
NoSym == Sym(<<>>, Term(None, <<>>, <<>>))

IdleGen ==
    /\ g_pc = "idle" /\ g_entry = None
    /\ g_args = [model |-> NoSym, kernel_size |-> 0, filters |-> 0, strides |-> 0]
    /\ model = NoSym /\ gen_model = NoSym /\ g_blocks = 0 /\ g_adds = <<>>

IdlePos ==
    /\ p_pc = "idle" /\ tar = <<>> /\ p_training = FALSE /\ p_x = NoTensor
    /\ decoder = [d_model |-> 0, maximum_position_encoding |-> 0, pos_embedding |-> NoTensor]

IdleMask ==
    /\ m_pc = "idle" /\ m_kind = None /\ seq = <<>> /\ size = 0 /\ m_shape = <<>>
    /\ mask = NoTensor /\ scaled_attention_logits = NoTensor

IdleHeads ==
    /\ h_pc = "idle" /\ mha = None /\ h_in = None
    /\ mha_q = NoTensor /\ mha_k = NoTensor /\ mha_v = NoTensor
    /\ scaled_attention = NoTensor /\ attention_weights = NoTensor
    /\ transposed = NoTensor /\ concat_attention = NoTensor

\* ------------------------------------------------------------- mask constructors
\* create_padding_mask(seq): tf.cast(tf.math.equal(seq, 0), tf.float32)[:, newaxis, newaxis, :]
PaddingEqualsWrong(s, b, j) == IF s[b][j] # 0 THEN 1 ELSE 0
PaddingEquals(s, b, j) == IF s[b][j] = 0 THEN 1 ELSE 0

create_padding_mask(s) ==
    LET B == Cardinality(DOMAIN s)
        L == Cardinality(DOMAIN s[0])
        shape == <<B, 1, 1, L>>
    IN [shape |-> shape,
        at |-> [t \in Indices(shape) |-> PaddingEquals(s, t[1], t[4])]]

\* create_look_ahead_mask(size): 1 - band_part(ones((size, size)), -1, 0)
LookAheadBandUpper(input) == band_part(input, 0, -1)
LookAheadBand(input) == band_part(input, -1, 0)

create_look_ahead_mask(n) ==
    LET band == LookAheadBand(ones(<<n, n>>))
    IN [shape |-> band.shape, at |-> [t \in Indices(band.shape) |-> 1 - band.at[t]]]

\* line 37: the constant the mask is multiplied by
NEG_INF == -1000000000

\* scaled_dot_product_attention, lines 36-37: logits += mask * -1e9 (broadcast)
AddMask(logits, msk) ==
    IF msk = NoTensor THEN logits
    ELSE [shape |-> logits.shape,
          at |-> [t \in Indices(logits.shape) |->
                     logits.at[t] + BroadcastAt(msk, t) * NEG_INF]]

\* ------------------------------------------------------------- reshape / transpose
\* number of entries of a tensor of the given shape
RECURSIVE NumEntries(_)
NumEntries(shape) == IF shape = <<>> THEN 1 ELSE Head(shape) * NumEntries(Tail(shape))

\* row-major (C order) offset of an index tuple, as tf.reshape keeps it
RECURSIVE Offset(_, _)
Offset(shape, idx) ==
    IF shape = <<>> THEN 0
    ELSE Head(idx) * NumEntries(Tail(shape)) + Offset(Tail(shape), Tail(idx))

\* tf.reshape(x, shape): the entries keep their row-major order; one extent may be
\* given as -1 and is inferred from the number of entries
InferShape(shape, n) ==
    LET known == NumEntries([i \in 1..Len(shape) |-> IF shape[i] = -1 THEN 1 ELSE shape[i]])
    IN [i \in 1..Len(shape) |-> IF shape[i] = -1 THEN n \div known ELSE shape[i]]

reshape(x, shape) ==
    LET new == InferShape(shape, NumEntries(x.shape))
    IN [shape |-> new,
        at |-> [t \in Indices(new) |->
                  x.at[CHOOSE u \in Indices(x.shape) : Offset(x.shape, u) = Offset(new, t)]]]

\* tf.transpose(x, perm): axis i of the result is axis perm[i] of x (perm is 0-based)
transpose(x, perm) ==
    LET new == [i \in 1..Len(perm) |-> x.shape[perm[i] + 1]]
    IN [shape |-> new,
        at |-> [t \in Indices(new) |->
                  x.at[[a \in 1..Len(perm) |->
                          t[CHOOSE i \in 1..Len(perm) : perm[i] + 1 = a]]]]]

\* ------------------------------------------------------------- MultiHeadedAttention
\* MultiHeadedAttention.split_heads(x, batch_size)
split_headsSwapped(layer, x, batch_size) ==
    transpose(reshape(x, <<batch_size, -1, layer.depth, layer.num_heads>>), <<0, 2, 1, 3>>)
split_heads(layer, x, batch_size) ==
    transpose(reshape(x, <<batch_size, -1, layer.num_heads, layer.depth>>), <<0, 2, 1, 3>>)

\* Result of a Dense projection (lines 66-68): entry (b, s, c) of the projected tensor
\* is the term <<name, b, s, c>>.
Projected(name, batch, length, d_model) ==
    LET shape == <<batch, length, d_model>>
    IN [shape |-> shape, at |-> [t \in Indices(shape) |-> <<name, t[1], t[2], t[3]>>]]

\* scaled_dot_product_attention on rank-4 tensors.  A floating point entry is modelled
\* by the set of projected entries it is computed from.
\* line 32: matmul_qk[b,h,i,j] = sum_d q[b,h,i,d] * k[b,h,j,d]
matmul_qk(qq, kk) ==
    LET shape == <<qq.shape[1], qq.shape[2], qq.shape[3], kk.shape[3]>>
    IN [shape |-> shape,
        at |-> [t \in Indices(shape) |->
                  UNION {{qq.at[<<t[1], t[2], t[3], d>>], kk.at[<<t[1], t[2], t[4], d>>]} :
                            d \in 0..(qq.shape[4] - 1)}]]

\* line 39: softmax over the last axis; every entry of a row enters each result
softmax(logits) ==
    [shape |-> logits.shape,
     at |-> [t \in Indices(logits.shape) |->
               UNION {logits.at[<<t[1], t[2], t[3], j>>] : j \in 0..(logits.shape[4] - 1)}]]

\* line 40: output[b,h,i,d] = sum_j attention_weights[b,h,i,j] * v[b,h,j,d]
matmul_av(w, vv) ==
    LET shape == <<w.shape[1], w.shape[2], w.shape[3], vv.shape[4]>>
    IN [shape |-> shape,
        at |-> [t \in Indices(shape) |->
                  UNION {w.at[<<t[1], t[2], t[3], j>>] \cup {vv.at[<<t[1], t[2], j, t[4]>>]} :
                            j \in 0..(w.shape[4] - 1)}]]

\* ------------------------------------------------------------- heads specification
InitHeads ==
    /\ h_pc = "project"
    /\ \E nh \in 1..MaxHeads, dp \in 1..MaxDepth :
          mha = [d_model |-> nh * dp, num_heads |-> nh, depth |-> dp]
    /\ h_in \in [batch : 1..MaxBatch, seq_q : 1..MaxSeqLen, seq_k : 1..MaxSeqLen]
    /\ mha_q = NoTensor /\ mha_k = NoTensor /\ mha_v = NoTensor
    /\ scaled_attention = NoTensor /\ attention_weights = NoTensor
    /\ transposed = NoTensor /\ concat_attention = NoTensor
    /\ IdleMask
    /\ IdleNet
    /\ IdlePos
    /\ IdleGen

\* lines 65-68
Project ==
    /\ h_pc = "project"
    /\ mha_q' = Projected("q", h_in.batch, h_in.seq_q, mha.d_model)
    /\ mha_k' = Projected("k", h_in.batch, h_in.seq_k, mha.d_model)
    /\ mha_v' = Projected("v", h_in.batch, h_in.seq_k, mha.d_model)
    /\ h_pc' = "split"
    /\ UNCHANGED <<mha, h_in, scaled_attention, attention_weights, transposed,
                   concat_attention>>
    /\ UNCHANGED <<maskVars, netVars, posVars, genVars>>

\* lines 70-72
SplitHeads ==
    /\ h_pc = "split"
    /\ mha_q' = split_heads(mha, mha_q, h_in.batch)
    /\ mha_k' = split_heads(mha, mha_k, h_in.batch)
    /\ mha_v' = split_heads(mha, mha_v, h_in.batch)
    /\ h_pc' = "attend"
    /\ UNCHANGED <<mha, h_in, scaled_attention, attention_weights, transposed,
                   concat_attention>>
    /\ UNCHANGED <<maskVars, netVars, posVars, genVars>>

\* line 74, with mask = None; a mask adds a term to the logits that is computed from
\* no entry of q, k, v
Attend ==
    /\ h_pc = "attend"
    /\ attention_weights' = softmax(matmul_qk(mha_q, mha_k))
    /\ scaled_attention' = matmul_av(softmax(matmul_qk(mha_q, mha_k)), mha_v)
    /\ h_pc' = "transpose"
    /\ UNCHANGED <<mha, h_in, mha_q, mha_k, mha_v, transposed, concat_attention>>
    /\ UNCHANGED <<maskVars, netVars, posVars, genVars>>

\* line 75
Transpose ==
    /\ h_pc = "transpose"
    /\ transposed' = transpose(scaled_attention, <<0, 2, 1, 3>>)
    /\ h_pc' = "concat"
    /\ UNCHANGED <<mha, h_in, mha_q, mha_k, mha_v, scaled_attention, attention_weights,
                   concat_attention>>
    /\ UNCHANGED <<maskVars, netVars, posVars, genVars>>

\* line 77; the Dense of line 79 acts on the last axis of the result
Concat ==
    /\ h_pc = "concat"
    /\ concat_attention' = reshape(transposed, <<h_in.batch, -1, mha.d_model>>)
    /\ h_pc' = "done"
    /\ UNCHANGED <<mha, h_in, mha_q, mha_k, mha_v, scaled_attention, attention_weights, transposed>>
    /\ UNCHANGED <<maskVars, netVars, posVars, genVars>>

NextHeads == Project \/ SplitHeads \/ Attend \/ Transpose \/ Concat

SpecHeads == InitHeads /\ [][NextHeads]_vars

\* ------------------------------------------------------------- constructors
\* MultiHeadedAttention.__init__(d_model, num_heads), lines 47-58.  attrs are the
\* attributes assigned when the constructor ends or raises; depth is 0 while unset.
SubLayers == {"wq", "wk", "wv", "dense"}

MHA_initNoAssert(owner, d_model, num_heads) ==
    IF num_heads = 0
    THEN [owner |-> owner, error |-> "ZeroDivisionError", d_model |-> d_model,
          num_heads |-> num_heads, depth |-> 0, attrs |-> {"num_heads", "d_model"}]
    ELSE [owner |-> owner, error |-> None, d_model |-> d_model, num_heads |-> num_heads,
          depth |-> d_model \div num_heads,
          attrs |-> {"num_heads", "d_model", "depth"} \cup SubLayers]

MHA_init(owner, d_model, num_heads) ==
    IF num_heads = 0
    THEN [owner |-> owner, error |-> "ZeroDivisionError", d_model |-> d_model,
          num_heads |-> num_heads, depth |-> 0, attrs |-> {"num_heads", "d_model"}]
    ELSE IF d_model % num_heads # 0
    THEN [owner |-> owner, error |-> "AssertionError", d_model |-> d_model,
          num_heads |-> num_heads, depth |-> 0, attrs |-> {"num_heads", "d_model"}]
    ELSE [owner |-> owner, error |-> None, d_model |-> d_model, num_heads |-> num_heads,
          depth |-> d_model \div num_heads,
          attrs |-> {"num_heads", "d_model", "depth"} \cup SubLayers]

\* EncoderLayer.__init__, line 94: the constructions it makes, up to a raise
EncoderLayer_init(i, d_model, num_heads) ==
    <<MHA_init(<<"enc_layers", i, "mha">>, d_model, num_heads)>>

\* DecoderLayer.__init__, lines 120-121
DecoderLayer_init(i, d_model, num_heads) ==
    LET m1 == MHA_init(<<"dec_layers", i, "mha1">>, d_model, num_heads)
    IN IF m1.error # None THEN <<m1>>
       ELSE <<m1, MHA_init(<<"dec_layers", i, "mha2">>, d_model, num_heads)>>

Raised(constructions) == \E j \in 1..Len(constructions) : constructions[j].error # None

CountOwner(list) == Cardinality({j \in 1..Len(built) : built[j].owner[1] = list})

\* ------------------------------------------------------------- layer calls
\* EncoderLayer.call(x, training, mask), lines 103-113
EncoderLayer_call(i, x, training, mask_) ==
    [layer |-> i, x |-> x, training |-> training, mask |-> mask_,
     mha |-> [v |-> x, k |-> x, q |-> x, mask |-> mask_],
     dropout |-> {training},
     out |-> Val("EncoderLayer", i, training)]

\* DecoderLayer.call(x, enc_output, training, look_ahead_mask, padding_mask), lines 133-146
DecoderLayer_call(i, x, enc_out, training, look_ahead_mask, padding_mask) ==
    [layer |-> i, x |-> x, enc_output |-> enc_out, training |-> training,
     look_ahead_mask |-> look_ahead_mask, padding_mask |-> padding_mask,
     mha1 |-> [v |-> x, k |-> x, q |-> x, mask |-> look_ahead_mask],
     mha2 |-> [v |-> enc_out, k |-> enc_out, q |-> Val("DecoderLayer.out1", i, training),
               mask |-> padding_mask],
     dropout |-> {training},
     out |-> Val("DecoderLayer", i, training),
     block1 |-> Val("DecoderLayer.attn_weights_block1", i, training),
     block2 |-> Val("DecoderLayer.attn_weights_block2", i, training)]

\* Encoder.call line 171: one iteration of the loop, the call it makes and the new x
EncoderLoopBodyDropsResult(i, x, training, mask_) ==
    [call |-> EncoderLayer_call(i, x, training, mask_), x |-> x]
EncoderLoopBody(i, x, training, mask_) ==
    LET c == EncoderLayer_call(i, x, training, mask_) IN [call |-> c, x |-> c.out]

\* dictionary assignment d[key] = val
DictSet(d, key, val) == [x \in (DOMAIN d) \cup {key} |-> IF x = key THEN val ELSE d[x]]

\* the f-strings of lines 201-202: f'decoder_layer{n}_block1' is <<"decoder_layer", n, "_block1">>
Key(n, block) == <<"decoder_layer", n, block>>

\* Decoder.call lines 200-202: one iteration of the loop
DecoderLoopBody(i, x, enc_out, training, look_ahead_mask, padding_mask, weights) ==
    LET c == DecoderLayer_call(i, x, enc_out, training, look_ahead_mask, padding_mask)
    IN [call |-> c, x |-> c.out,
        attention_weights |->
            DictSet(DictSet(weights, Key(i + 1, "_block1"), c.block1),
                    Key(i + 2, "_block2"), c.block2)]

\* ------------------------------------------------------------- network specification
\* what a caller can pass: a flag and, for each mask, a tensor (named here) or None
CallerArgs ==
    [training : BOOLEAN, look_ahead_mask : {"LA", None},
     dec_padding_mask : {"DP", None}, enc_padding_mask : {"EP", None}]

InitNet ==
    /\ n_pc = "Encoder.__init__"
    /\ \/ /\ entry = "Network"      \* lines 315-316
          /\ cfg = [num_layers |-> NUM_LAYERS, d_model |-> D_MODEL, num_heads |-> NUM_HEADS]
       \/ /\ entry = "Transformer"
          /\ cfg \in [num_layers : 1..MaxLayers, d_model : 1..MaxDModel,
                      num_heads : 0..MaxHeads]
    /\ NetRest
    /\ IdleMask
    /\ IdleHeads
    /\ IdlePos
    /\ IdleGen

\* Encoder.__init__ line 161: the next EncoderLayer of the list comprehension
BuildEncoderLayer ==
    /\ n_pc = "Encoder.__init__"
    /\ LET made == EncoderLayer_init(CountOwner("enc_layers"), cfg.d_model, cfg.num_heads)
       IN /\ built' = built \o made
          /\ n_pc' = IF Raised(made) THEN "raised"
                     ELSE IF CountOwner("enc_layers") + 1 = cfg.num_layers
                          THEN "Decoder.__init__" ELSE "Encoder.__init__"
    /\ UNCHANGED <<entry, cfg, caller, tr, enc_i, enc_x, enc_log, enc_output,
                   dec_i, dec_x, dec_log, dec_attention_weights, ret, generator_runs>>
    /\ UNCHANGED <<maskVars, headVars, posVars, genVars>>

\* Decoder.__init__ line 187: the next DecoderLayer; after the last one the remaining
\* constructor lines (188, 214, 317) create no MultiHeadedAttention
BuildDecoderLayer ==
    /\ n_pc = "Decoder.__init__"
    /\ LET i == CountOwner("dec_layers") \div 2
           made == DecoderLayer_init(i, cfg.d_model, cfg.num_heads)
       IN /\ built' = built \o made
          /\ n_pc' = IF Raised(made) THEN "raised"
                     ELSE IF i + 1 = cfg.num_layers THEN "constructed"
                          ELSE "Decoder.__init__"
    /\ UNCHANGED <<entry, cfg, caller, tr, enc_i, enc_x, enc_log, enc_output,
                   dec_i, dec_x, dec_log, dec_attention_weights, ret, generator_runs>>
    /\ UNCHANGED <<maskVars, headVars, posVars, genVars>>

\* Network.call line 320: self.image_to_text(inp, tar, False, dec_padding_mask)
NetworkCallArgs(c) ==
    [training |-> FALSE, look_ahead_mask |-> c.dec_padding_mask,
     dec_padding_mask |-> None, enc_padding_mask |-> None]

NetworkCall ==
    /\ n_pc = "constructed" /\ entry = "Network"
    /\ \E c \in CallerArgs :
          /\ caller' = c
          /\ tr' = NetworkCallArgs(c)
    /\ n_pc' = "Encoder.call"
    /\ UNCHANGED <<entry, cfg, built, enc_i, enc_x, enc_log, enc_output,
                   dec_i, dec_x, dec_log, dec_attention_weights, ret, generator_runs>>
    /\ UNCHANGED <<maskVars, headVars, posVars, genVars>>

\* Transformer.call invoked by the caller itself
TransformerCall ==
    /\ n_pc = "constructed" /\ entry = "Transformer"
    /\ \E c \in CallerArgs :
          /\ caller' = c
          /\ tr' = c
    /\ n_pc' = "Encoder.call"
    /\ UNCHANGED <<entry, cfg, built, enc_i, enc_x, enc_log, enc_output,
                   dec_i, dec_x, dec_log, dec_attention_weights, ret, generator_runs>>
    /\ UNCHANGED <<maskVars, headVars, posVars, genVars>>

\* Transformer.call line 217 entering Encoder.call, lines 165-168
EncoderEmbedded(training) == Val("Encoder.dropout(embedding(inp))", -1, training)

EncoderStart ==
    /\ n_pc = "Encoder.call"
    /\ enc_x' = EncoderEmbedded(tr.training)
    /\ enc_i' = 0
    /\ n_pc' = "Encoder.loop"
    /\ UNCHANGED <<entry, cfg, built, caller, tr, enc_log, enc_output,
                   dec_i, dec_x, dec_log, dec_attention_weights, ret, generator_runs>>
    /\ UNCHANGED <<maskVars, headVars, posVars, genVars>>

\* Encoder.call lines 170-171, one iteration
EncoderLayerStep ==
    /\ n_pc = "Encoder.loop" /\ enc_i < cfg.num_layers
    /\ LET b == EncoderLoopBody(enc_i, enc_x, tr.training, tr.enc_padding_mask)
       IN /\ enc_log' = Append(enc_log, b.call)
          /\ enc_x' = b.x
    /\ enc_i' = enc_i + 1
    /\ UNCHANGED <<n_pc, entry, cfg, built, caller, tr, enc_output,
                   dec_i, dec_x, dec_log, dec_attention_weights, ret, generator_runs>>
    /\ UNCHANGED <<maskVars, headVars, posVars, genVars>>

\* Encoder.call line 173 returning into Transformer.call line 217
EncoderReturn ==
    /\ n_pc = "Encoder.loop" /\ enc_i >= cfg.num_layers
    /\ enc_output' = enc_x
    /\ n_pc' = "Decoder.call"
    /\ UNCHANGED <<entry, cfg, built, caller, tr, enc_i, enc_x, enc_log,
                   dec_i, dec_x, dec_log, dec_attention_weights, ret, generator_runs>>
    /\ UNCHANGED <<maskVars, headVars, posVars, genVars>>

\* Transformer.call line 218 entering Decoder.call, lines 191-197
DecoderEmbedded(training) ==
    Val("Decoder.dropout(embedding(tar)*sqrt(d_model)+pos_embedding)", -1, training)

DecoderStart ==
    /\ n_pc = "Decoder.call"
    /\ dec_attention_weights' = <<>>
    /\ dec_x' = DecoderEmbedded(tr.training)
    /\ dec_i' = 0
    /\ n_pc' = "Decoder.loop"
    /\ UNCHANGED <<entry, cfg, built, caller, tr, enc_i, enc_x, enc_log, enc_output,
                   dec_log, ret, generator_runs>>
    /\ UNCHANGED <<maskVars, headVars, posVars, genVars>>

\* Decoder.call lines 199-202, one iteration
DecoderLayerStep ==
    /\ n_pc = "Decoder.loop" /\ dec_i < cfg.num_layers
    /\ LET b == DecoderLoopBody(dec_i, dec_x, enc_output, tr.training,
                                tr.look_ahead_mask, tr.dec_padding_mask,
                                dec_attention_weights)
       IN /\ dec_log' = Append(dec_log, b.call)
          /\ dec_x' = b.x
          /\ dec_attention_weights' = b.attention_weights
    /\ dec_i' = dec_i + 1
    /\ UNCHANGED <<n_pc, entry, cfg, built, caller, tr, enc_i, enc_x, enc_log, enc_output,
                   ret, generator_runs>>
    /\ UNCHANGED <<maskVars, headVars, posVars, genVars>>

\* Decoder.call line 204, then Transformer.call lines 219-220
TransformerReturn ==
    /\ n_pc = "Decoder.loop" /\ dec_i >= cfg.num_layers
    /\ ret' = [kind |-> "final_output, attention_weights",
               final_output |-> Val("final_layer", -1, tr.training),
               attention_weights |-> dec_attention_weights]
    /\ n_pc' = IF entry = "Network" THEN "Network.call" ELSE "done"
    /\ UNCHANGED <<entry, cfg, built, caller, tr, enc_i, enc_x, enc_log, enc_output,
                   dec_i, dec_x, dec_log, dec_attention_weights, generator_runs>>
    /\ UNCHANGED <<maskVars, headVars, posVars, genVars>>

\* Network.call after line 320: p, w are bound, line 321 prints, and the method ends
\* without a return statement and without using self.text_to_image
NetworkReturnValue(p, w) == [kind |-> None, final_output |-> NoVal, attention_weights |-> <<>>]

NetworkReturn ==
    /\ n_pc = "Network.call"
    /\ ret' = NetworkReturnValue(ret.final_output, ret.attention_weights)
    /\ n_pc' = "done"
    /\ UNCHANGED <<entry, cfg, built, caller, tr, enc_i, enc_x, enc_log, enc_output,
                   dec_i, dec_x, dec_log, dec_attention_weights, generator_runs>>
    /\ UNCHANGED <<maskVars, headVars, posVars, genVars>>

NextNet ==
    \/ BuildEncoderLayer \/ BuildDecoderLayer
    \/ NetworkCall \/ TransformerCall
    \/ EncoderStart \/ EncoderLayerStep \/ EncoderReturn
    \/ DecoderStart \/ DecoderLayerStep \/ TransformerReturn
    \/ NetworkReturn

SpecNet == InitNet /\ [][NextNet]_vars

\* ------------------------------------------------------------- positional encoding
\* get_angles(pos, i, d_model) = pos * 1 / 10000^((2 * (i // 2)) / d_model): the angle
\* is kept as the position and the exponent's numerator and denominator
get_anglesPerColumn(pos, i, d_model) == [pos |-> pos, num |-> 2 * i, den |-> d_model]
get_angles(pos, i, d_model) == [pos |-> pos, num |-> 2 * (i \div 2), den |-> d_model]

\* positional_encoding_1d(position, d_model), lines 13-18: sin on the even columns,
\* cos on the odd ones, and a leading axis of extent 1
positional_encoding_1d(position, d_model) ==
    LET shape == <<1, position, d_model>>
    IN [shape |-> shape,
        at |-> [t \in Indices(shape) |->
                  [fn |-> IF t[3] % 2 = 0 THEN "sin" ELSE "cos",
                   angle |-> get_angles(t[2], t[3], d_model)]]]

NoAngle == [fn |-> None, angle |-> [pos |-> -1, num |-> -1, den |-> -1]]

\* An entry of x: the embedding entry (token id, column), the number whose square root
\* it was multiplied by (0: not yet), the positional entry added (NoAngle: not yet), and
\* what dropout did to it ("kept", "zeroed", "rescaled").
Entry(tok, col, scale, pe, drop) ==
    [tok |-> tok, col |-> col, scale |-> scale, pe |-> pe, drop |-> drop]

\* line 194: self.embedding(x)
Embedding(target, d_model) ==
    LET shape == <<1, Len(target), d_model>>
    IN [shape |-> shape,
        at |-> [t \in Indices(shape) |-> Entry(target[t[2] + 1], t[3], 0, NoAngle, "kept")]]

\* line 195: x *= sqrt(d_model)
ScaleBy(x, d_model) ==
    [shape |-> x.shape, at |-> [t \in Indices(x.shape) |-> [x.at[t] EXCEPT !.scale = d_model]]]

\* the slice t[:, :n, :]
SliceRows(t, n) ==
    LET rows == IF n < t.shape[2] THEN n ELSE t.shape[2]
        shape == <<t.shape[1], rows, t.shape[3]>>
    IN [shape |-> shape, at |-> [i \in Indices(shape) |-> t.at[i]]]

\* whether tensor b can be broadcast to the shape of a (same rank)
BroadcastsTo(b, a) ==
    \A j \in 1..Len(a.shape) : b.shape[j] = a.shape[j] \/ b.shape[j] = 1

\* line 196: x += self.pos_embedding[:, :seq_len, :]
AddPositions(x, table, seq_len) ==
    [shape |-> x.shape,
     at |-> [t \in Indices(x.shape) |->
               [x.at[t] EXCEPT !.pe = BroadcastAt(SliceRows(table, seq_len), t)]]]

\* line 197: Dropout(rate)(x, training): the identity unless training; when training
\* every entry is independently zeroed or rescaled by 1 / (1 - rate)
DropoutResults(x, training) ==
    IF ~training THEN {x}
    ELSE {[shape |-> x.shape,
           at |-> [t \in Indices(x.shape) |->
                     [x.at[t] EXCEPT !.drop = IF t \in zeroed THEN "zeroed" ELSE "rescaled"]]] :
             zeroed \in SUBSET Indices(x.shape)}

\* ------------------------------------------------------------- positions specification
InitPos ==
    /\ p_pc = "embedding"
    /\ \E d \in EmbeddingWidths, m \in 1..MaxPositions :
          decoder = [d_model |-> d, maximum_position_encoding |-> m,
                     pos_embedding |-> positional_encoding_1d(m, d)]     \* line 185
    /\ tar \in UNION {[1..L -> TargetIds] : L \in 1..MaxTarLen}
    /\ p_training \in BOOLEAN
    /\ p_x = NoTensor
    /\ IdleMask
    /\ IdleHeads
    /\ IdleNet
    /\ IdleGen

\* line 194
Embed ==
    /\ p_pc = "embedding"
    /\ p_x' = Embedding(tar, decoder.d_model)
    /\ p_pc' = "scale"
    /\ UNCHANGED <<decoder, tar, p_training>>
    /\ UNCHANGED <<maskVars, headVars, netVars, genVars>>

\* line 195
Scale ==
    /\ p_pc = "scale"
    /\ p_x' = ScaleBy(p_x, decoder.d_model)
    /\ p_pc' = "add_positions"
    /\ UNCHANGED <<decoder, tar, p_training>>
    /\ UNCHANGED <<maskVars, headVars, netVars, genVars>>

\* line 196; shapes that do not broadcast raise InvalidArgumentError
AddPos ==
    /\ p_pc = "add_positions"
    /\ IF BroadcastsTo(SliceRows(decoder.pos_embedding, Len(tar)), p_x)
       THEN /\ p_x' = AddPositions(p_x, decoder.pos_embedding, Len(tar))
            /\ p_pc' = "dropout"
       ELSE /\ p_x' = p_x
            /\ p_pc' = "InvalidArgumentError"
    /\ UNCHANGED <<decoder, tar, p_training>>
    /\ UNCHANGED <<maskVars, headVars, netVars, genVars>>

\* line 197; the result is the x given to dec_layers[0] in line 200
Dropout ==
    /\ p_pc = "dropout"
    /\ p_x' \in DropoutResults(p_x, p_training)
    /\ p_pc' = "first_layer"
    /\ UNCHANGED <<decoder, tar, p_training>>
    /\ UNCHANGED <<maskVars, headVars, netVars, genVars>>

NextPos == Embed \/ Scale \/ AddPos \/ Dropout

SpecPos == InitPos /\ [][NextPos]_vars

\* ------------------------------------------------------------- generator layers
CeilDiv(a, b) == (a + b - 1) \div b

\* layers.Input(shape)
Input(name, shape) == Sym(shape, Term("Input:" \o name, shape, <<>>))

\* layers.Dense(units) on a vector
Dense(units, x) == Sym(<<units>>, Term("Dense", <<units>>, <<x.term>>))

\* layers.Reshape(shape); the number of entries must agree
Reshape(shape, x) == Sym(shape, Term("Reshape", shape, <<x.term>>))

\* layers.Concatenate() on the last axis
Concatenate(a, b) ==
    Sym(<<a.shape[1], a.shape[2], a.shape[3] + b.shape[3]>>,
        Term("Concatenate", <<>>, <<a.term, b.term>>))

\* layers.Conv2D(filters, kernel_size, strides, padding="same"): each spatial extent
\* becomes ceil(extent / strides), the channels become filters
Conv2D(filters, kernel_size, strides, x) ==
    Sym(<<CeilDiv(x.shape[1], strides), CeilDiv(x.shape[2], strides), filters>>,
        Term("Conv2D", <<filters, kernel_size, strides>>, <<x.term>>))

\* layers.Conv2DTranspose(filters, kernel_size, strides, padding="same")
Conv2DTranspose(filters, kernel_size, strides, x) ==
    Sym(<<x.shape[1] * strides, x.shape[2] * strides, filters>>,
        Term("Conv2DTranspose", <<filters, kernel_size, strides>>, <<x.term>>))

\* shape-preserving layers
BatchNormalization(x) == Sym(x.shape, Term("BatchNormalization", <<>>, <<x.term>>))
PReLU(x) == Sym(x.shape, Term("PReLU", <<>>, <<x.term>>))
LeakyReLU(x) == Sym(x.shape, Term("LeakyReLU", <<>>, <<x.term>>))
Tanh(x) == Sym(x.shape, Term("tanh", <<>>, <<x.term>>))

\* layers.Add()([a, b]): the shapes must agree up to broadcasting of extents 1
AddCompatible(a, b) ==
    \A j \in 1..3 : a.shape[j] = b.shape[j] \/ a.shape[j] = 1 \/ b.shape[j] = 1

Add(a, b) ==
    Sym([j \in 1..3 |-> IF a.shape[j] = 1 THEN b.shape[j] ELSE a.shape[j]],
        Term("Add", <<>>, <<a.term, b.term>>))

\* resnet_block(model, kernel_size, filters, strides), lines 247-256: the operands of
\* its Add, the skip operand first
resnet_block_operandsSkipAfterConv(m, kernel_size, filters, strides) ==
    LET gen == Conv2D(filters, kernel_size, strides, m)
        m2 == BatchNormalization(gen)
        m3 == PReLU(m2)
        m4 == Conv2D(filters, kernel_size, strides, m3)
        m5 == BatchNormalization(m4)
    IN [lhs |-> gen, rhs |-> m5]
resnet_block_operands(m, kernel_size, filters, strides) ==
    LET gen == m
        m1 == Conv2D(filters, kernel_size, strides, m)
        m2 == BatchNormalization(m1)
        m3 == PReLU(m2)
        m4 == Conv2D(filters, kernel_size, strides, m3)
        m5 == BatchNormalization(m4)
    IN [lhs |-> gen, rhs |-> m5]

\* lines 263-272: the two inputs up to merge
Merge ==
    LET random_input == Input("random_input", <<100>>)
        text_input1 == Input("text_input1", <<300>>)
        text_layer1 == Reshape(<<8, 8, 128>>, Dense(8192, text_input1))
        generator == Reshape(<<8, 8, 128>>, Dense(128 * 8 * 8, random_input))
    IN Concatenate(generator, text_layer1)

\* lines 287-303: the upsampling tail
Upsample(m) ==
    LET u1 == LeakyReLU(Conv2DTranspose(512, 3, 2, m))
        u2 == LeakyReLU(Conv2DTranspose(256, 3, 2, u1))
        u3 == LeakyReLU(Conv2DTranspose(128, 3, 2, u2))
        u4 == LeakyReLU(Conv2DTranspose(64, 3, 1, u3))
    IN Tanh(Conv2D(3, 3, 1, u4))

\* ------------------------------------------------------------- generator specification
InitGen ==
    /\ \/ /\ g_entry = "TextToImage"
          /\ g_pc = "merge"
          /\ g_args = [model |-> NoSym, kernel_size |-> 0, filters |-> 0, strides |-> 0]
       \/ /\ g_entry = "resnet_block"
          /\ g_pc = "resnet_block"
          /\ \E h \in 1..MaxSide, w \in 1..MaxSide, c \in 1..MaxChannels :
                g_args \in [model : {Input("model", <<h, w, c>>)}, kernel_size : KernelSizes,
                            filters : 1..MaxChannels, strides : 1..MaxStride]
    /\ model = g_args.model
    /\ gen_model = NoSym /\ g_blocks = 0 /\ g_adds = <<>>
    /\ IdleMask
    /\ IdleHeads
    /\ IdleNet
    /\ IdlePos

\* lines 260-278
Stem ==
    /\ g_pc = "merge"
    /\ model' = PReLU(Conv2D(64, 9, 1, Merge))
    /\ gen_model' = model'
    /\ g_pc' = "blocks"
    /\ UNCHANGED <<g_entry, g_args, g_blocks, g_adds>>
    /\ UNCHANGED <<maskVars, headVars, netVars, posVars>>

\* one call of resnet_block: line 281 inside the loop of line 280, or the direct call
ResnetBlock ==
    /\ \/ g_pc = "blocks" /\ g_blocks < 4
       \/ g_pc = "resnet_block"
    /\ LET a == IF g_pc = "blocks"
                THEN [model |-> model, kernel_size |-> 3, filters |-> 64, strides |-> 1]
                ELSE g_args
           ops == resnet_block_operands(a.model, a.kernel_size, a.filters, a.strides)
       IN /\ g_adds' = Append(g_adds, [site |-> "resnet_block", input |-> a.model,
                                       lhs |-> ops.lhs, rhs |-> ops.rhs])
          /\ IF AddCompatible(ops.lhs, ops.rhs)
             THEN /\ model' = Add(ops.lhs, ops.rhs)
                  /\ g_pc' = IF g_pc = "blocks" THEN "blocks" ELSE "returned"
                  /\ g_blocks' = g_blocks + 1
             ELSE /\ model' = model
                  /\ g_pc' = "ValueError"
                  /\ g_blocks' = g_blocks
    /\ UNCHANGED <<g_entry, g_args, gen_model>>
    /\ UNCHANGED <<maskVars, headVars, netVars, posVars>>

\* lines 283-285
OuterAdd ==
    /\ g_pc = "blocks" /\ g_blocks >= 4
    /\ LET m == BatchNormalization(Conv2D(64, 3, 1, model))
       IN /\ g_adds' = Append(g_adds, [site |-> "TextToImage", input |-> model,
                                       lhs |-> gen_model, rhs |-> m])
          /\ IF AddCompatible(gen_model, m)
             THEN model' = Add(gen_model, m) /\ g_pc' = "upsample"
             ELSE model' = model /\ g_pc' = "ValueError"
    /\ UNCHANGED <<g_entry, g_args, gen_model, g_blocks>>
    /\ UNCHANGED <<maskVars, headVars, netVars, posVars>>

\* lines 287-309
UpsampleTail ==
    /\ g_pc = "upsample"
    /\ model' = Upsample(model)
    /\ g_pc' = "returned"
    /\ UNCHANGED <<g_entry, g_args, gen_model, g_blocks, g_adds>>
    /\ UNCHANGED <<maskVars, headVars, netVars, posVars>>

NextGen == Stem \/ ResnetBlock \/ OuterAdd \/ UpsampleTail

SpecGen == InitGen /\ [][NextGen]_vars

\* ------------------------------------------------------------- mask specification
SeqBatches ==
    UNION {[0..(B - 1) -> [0..(L - 1) -> TokenIds]] : B \in 1..MaxBatch, L \in 1..MaxSeqLen}

InitMask ==
    /\ m_pc = "start"
    /\ m_kind \in {"padding", "look_ahead"}
    /\ \/ /\ m_kind = "padding"
          /\ seq \in SeqBatches
          /\ size = 0
          /\ \E hq \in {<<1, 1>>, <<MaxHeads, MaxSeqLen>>} :
                m_shape = <<Cardinality(DOMAIN seq), hq[1], hq[2], Cardinality(DOMAIN seq[0])>>
       \/ /\ m_kind = "look_ahead"
          /\ seq = <<>>
          /\ size \in 1..MaxSize
          /\ \E b \in 1..MaxBatch, h \in 1..MaxHeads : m_shape = <<b, h, size, size>>
    /\ mask = NoTensor
    /\ IdleHeads
    /\ IdleNet
    /\ IdlePos
    /\ IdleGen
    /\ scaled_attention_logits = [shape |-> m_shape, at |-> [t \in Indices(m_shape) |-> 0]]

CreatePaddingMask ==
    /\ m_pc = "start" /\ m_kind = "padding"
    /\ mask' = create_padding_mask(seq)
    /\ m_pc' = "masked"
    /\ UNCHANGED <<m_kind, seq, size, m_shape, scaled_attention_logits>>
    /\ UNCHANGED <<headVars, netVars, posVars, genVars>>

CreateLookAheadMask ==
    /\ m_pc = "start" /\ m_kind = "look_ahead"
    /\ mask' = create_look_ahead_mask(size)
    /\ m_pc' = "masked"
    /\ UNCHANGED <<m_kind, seq, size, m_shape, scaled_attention_logits>>
    /\ UNCHANGED <<headVars, netVars, posVars, genVars>>

ApplyMask ==
    /\ m_pc = "masked"
    /\ scaled_attention_logits' = AddMask(scaled_attention_logits, mask)
    /\ m_pc' = "done"
    /\ UNCHANGED <<m_kind, seq, size, m_shape, mask>>
    /\ UNCHANGED <<headVars, netVars, posVars, genVars>>

NextMask == CreatePaddingMask \/ CreateLookAheadMask \/ ApplyMask

SpecMask == InitMask /\ [][NextMask]_vars

\* ------------------------------------------------------------- claims on the masks
\* C6: create_look_ahead_mask(size) is a size x size matrix whose entry (i, j) is 1
\* exactly when j > i and 0 when j <= i; applied in scaled_dot_product_attention it
\* puts the -1e9 term on exactly the later positions j > i of every query position i,
\* in every batch row and head.
C6_LookAheadMask ==
    (m_kind = "look_ahead" /\ m_pc \in {"masked", "done"}) =>
        /\ mask.shape = <<size, size>>
        /\ \A i \in 0..(size - 1), j \in 0..(size - 1) :
              mask.at[<<i, j>>] = IF j > i THEN 1 ELSE 0
        /\ m_pc = "done" =>
              \A t \in Indices(m_shape) :
                 scaled_attention_logits.at[t] = IF t[4] > t[3] THEN NEG_INF ELSE 0

C6_Witness ==
    /\ m_kind = "look_ahead" /\ m_pc = "done" /\ size = 3
    /\ scaled_attention_logits.at[<<0, 0, 0, 2>>] = NEG_INF
    /\ scaled_attention_logits.at[<<0, 0, 2, 0>>] = 0

\* C7: create_padding_mask(seq) has shape (batch, 1, 1, seq_len) with entry
\* (b, 0, 0, j) = 1 exactly when seq[b][j] = 0; applied in
\* scaled_dot_product_attention it puts the -1e9 term on exactly the key positions
\* holding id 0, in every head and for every query position.
C7_PaddingMask ==
    (m_kind = "padding" /\ m_pc \in {"masked", "done"}) =>
        LET B == Cardinality(DOMAIN seq)
            L == Cardinality(DOMAIN seq[0])
        IN /\ mask.shape = <<B, 1, 1, L>>
           /\ DOMAIN mask.at = {<<b, 0, 0, j>> : b \in 0..(B - 1), j \in 0..(L - 1)}
           /\ \A b \in 0..(B - 1), j \in 0..(L - 1) :
                 /\ mask.at[<<b, 0, 0, j>>] \in {0, 1}
                 /\ mask.at[<<b, 0, 0, j>>] = 1 <=> seq[b][j] = 0
           /\ m_pc = "done" =>
                 \A t \in Indices(m_shape) :
                    scaled_attention_logits.at[t] =
                        IF seq[t[1]][t[4]] = 0 THEN NEG_INF ELSE 0

C7_Witness ==
    /\ m_kind = "padding" /\ m_pc = "done"
    /\ m_shape = <<2, 2, 2, 2>>
    /\ seq[0][0] = 0 /\ seq[0][1] = 2 /\ seq[1][0] = 1 /\ seq[1][1] = 0
    /\ scaled_attention_logits.at[<<1, 1, 0, 1>>] = NEG_INF
    /\ scaled_attention_logits.at[<<0, 1, 1, 1>>] = 0

\* ------------------------------------------------------------- claims on the heads
\* entry (b, s, h*depth + d) of the projected tensor `name` sits at (b, h, s, d) of x
C2_SplitAt(x, name, length) ==
    /\ x.shape = <<h_in.batch, mha.num_heads, length, mha.depth>>
    /\ \A b \in 0..(h_in.batch - 1), s \in 0..(length - 1),
          h \in 0..(mha.num_heads - 1), d \in 0..(mha.depth - 1) :
          x.at[<<b, h, s, d>>] = <<name, b, s, h * mha.depth + d>>

\* every entry of x at head h, batch row b, is computed from head h's slice of row b only
C2_OwnHead(x) ==
    \A t \in Indices(x.shape) : \A e \in x.at[t] :
        /\ e[2] = t[1]
        /\ e[4] \div mha.depth = t[2]

\* C2: split_heads sends entry (b, s, h*depth + d) of each projected tensor to
\* (b, h, s, d); the transpose and reshape of lines 75-77 send entry (b, h, s, d) of
\* the attention result back to (b, s, h*depth + d), so no entry is lost or merged;
\* and every entry of the attention result and of the attention weights of head h
\* (batch row b) is computed only from entries of q, k, v whose channel lies in head
\* h's slice h*depth .. h*depth + depth - 1 (and whose batch row is b).
C2_HeadsRoundTrip ==
    /\ h_pc \in {"attend", "transpose", "concat", "done"} =>
          /\ C2_SplitAt(mha_q, "q", h_in.seq_q)
          /\ C2_SplitAt(mha_k, "k", h_in.seq_k)
          /\ C2_SplitAt(mha_v, "v", h_in.seq_k)
    /\ h_pc \in {"transpose", "concat", "done"} =>
          /\ C2_OwnHead(scaled_attention)
          /\ C2_OwnHead(attention_weights)
          /\ scaled_attention.shape = <<h_in.batch, mha.num_heads, h_in.seq_q, mha.depth>>
          /\ \A t, u \in Indices(scaled_attention.shape) :
                t # u => scaled_attention.at[t] # scaled_attention.at[u]
    /\ h_pc = "done" =>
          /\ concat_attention.shape = <<h_in.batch, h_in.seq_q, mha.d_model>>
          /\ \A b \in 0..(h_in.batch - 1), s \in 0..(h_in.seq_q - 1),
                h \in 0..(mha.num_heads - 1), d \in 0..(mha.depth - 1) :
                concat_attention.at[<<b, s, h * mha.depth + d>>] =
                    scaled_attention.at[<<b, h, s, d>>]

C2_Witness ==
    /\ h_pc = "done"
    /\ mha.num_heads = 2 /\ mha.depth = 2
    /\ h_in.batch = 2 /\ h_in.seq_q = 2 /\ h_in.seq_k = 1
    /\ mha_q.at[<<1, 1, 0, 1>>] = <<"q", 1, 0, 3>>
    /\ concat_attention.at[<<1, 0, 3>>] = scaled_attention.at[<<1, 1, 0, 1>>]
    /\ <<"v", 1, 0, 3>> \in concat_attention.at[<<1, 0, 3>>]

\* ------------------------------------------------------------- claims on the call chain
\* C1: every Network.call runs the Transformer, then runs the TextToImage generator on
\* data derived from the Transformer's output, and returns the generated image.
C1_NetworkPipeline ==
    (entry = "Network" /\ n_pc = "done") =>
        /\ Len(enc_log) = cfg.num_layers /\ Len(dec_log) = cfg.num_layers
        /\ generator_runs >= 1
        /\ ret.kind = "image"

\* the layer calls of Encoder.call: order, chaining, returned value
C3_EncoderStack ==
    /\ n_pc = "Encoder.loop" => Len(enc_log) = enc_i
    /\ n_pc \in {"Encoder.loop", "Decoder.call", "Decoder.loop", "Network.call", "done"} =>
          \A j \in 1..Len(enc_log) :
             /\ enc_log[j].layer = j - 1
             /\ enc_log[j].x = IF j = 1 THEN EncoderEmbedded(tr.training)
                               ELSE enc_log[j - 1].out
             /\ enc_log[j].out = Val("EncoderLayer", j - 1, tr.training)
    /\ n_pc \in {"Decoder.call", "Decoder.loop", "Network.call", "done"} =>
          /\ Len(enc_log) = cfg.num_layers
          /\ enc_output = enc_log[cfg.num_layers].out

\* the layer calls of Decoder.call: order, chaining, shared arguments, returned value
C3_DecoderStack ==
    /\ n_pc = "Decoder.loop" => Len(dec_log) = dec_i
    /\ n_pc \in {"Decoder.loop", "Network.call", "done"} =>
          \A j \in 1..Len(dec_log) :
             /\ dec_log[j].layer = j - 1
             /\ dec_log[j].x = IF j = 1 THEN DecoderEmbedded(tr.training)
                               ELSE dec_log[j - 1].out
             /\ dec_log[j].out = Val("DecoderLayer", j - 1, tr.training)
             /\ dec_log[j].enc_output = enc_output
             /\ dec_log[j].look_ahead_mask = tr.look_ahead_mask
             /\ dec_log[j].padding_mask = tr.dec_padding_mask
    /\ n_pc \in {"Network.call", "done"} =>
          /\ Len(dec_log) = cfg.num_layers
          /\ dec_x = dec_log[cfg.num_layers].out

\* C3: Encoder.call and Decoder.call each apply exactly num_layers layers, once each,
\* in index order 0 .. num_layers-1; layer 0 receives the embedded, dropout-applied
\* input, layer i+1 receives the output of layer i, the returned representation is the
\* output of layer num_layers-1; every decoder layer receives the same enc_output and
\* the same two masks.
C3_LayerStacks == C3_EncoderStack /\ C3_DecoderStack

C3_Witness ==
    /\ entry = "Network" /\ n_pc = "done"
    /\ Len(enc_log) = 4 /\ Len(dec_log) = 4
    /\ enc_log[4].x = enc_log[3].out
    /\ dec_log[4].x = dec_log[3].out
    /\ dec_log[4].enc_output = enc_log[4].out

\* C8: the caller's look_ahead_mask is the mask of every decoder layer's mha1, the
\* caller's dec_padding_mask the mask of every decoder layer's mha2, the caller's
\* enc_padding_mask the mask of every encoder layer's self-attention, and the caller's
\* training flag the one given to every dropout, whichever call the caller entered by.
C8_MaskRouting ==
    n_pc = "done" =>
        /\ \A j \in 1..Len(dec_log) :
              /\ dec_log[j].mha1.mask = caller.look_ahead_mask
              /\ dec_log[j].mha2.mask = caller.dec_padding_mask
              /\ dec_log[j].dropout = {caller.training}
        /\ \A j \in 1..Len(enc_log) :
              /\ enc_log[j].mha.mask = caller.enc_padding_mask
              /\ enc_log[j].dropout = {caller.training}
        /\ enc_log[1].x.training = caller.training
        /\ dec_log[1].x.training = caller.training

\* C9: Decoder.call returns a dictionary with exactly 2 * num_layers entries: for every
\* layer number l in 1..num_layers, decoder_layer{l}_block1 holds the self-attention
\* weights and decoder_layer{l}_block2 the encoder-decoder attention weights of the
\* l-th decoder layer; no key names a layer number outside 1..num_layers.
C9_AttentionWeightKeys ==
    n_pc \in {"Network.call", "done"} =>
        /\ DOMAIN dec_attention_weights =
              {Key(l, b) : l \in 1..cfg.num_layers, b \in {"_block1", "_block2"}}
        /\ \A l \in 1..cfg.num_layers :
              /\ dec_attention_weights[Key(l, "_block1")] = dec_log[l].block1
              /\ dec_attention_weights[Key(l, "_block2")] = dec_log[l].block2

\* C10: a MultiHeadedAttention construction fails on the assertion exactly when
\* d_model is not divisible by num_heads, and then no sub-layer has been created;
\* every constructed instance has all its sub-layers and depth * num_heads = d_model;
\* Network() builds 4 encoder-layer and 8 decoder-layer instances (mha1 and mha2 of 4
\* layers), all with depth 64 and none failing.
C10_HeadsDivideModel ==
    /\ \A j \in 1..Len(built) :
          LET m == built[j] IN
          /\ m.num_heads # 0 =>
                (m.error = "AssertionError" <=> m.d_model % m.num_heads # 0)
          /\ m.error # None => m.attrs \cap (SubLayers \cup {"depth"}) = {}
          /\ m.error = None =>
                /\ SubLayers \subseteq m.attrs
                /\ m.depth * m.num_heads = m.d_model
          /\ entry = "Network" => (m.error = None /\ m.depth = 64)
    /\ (n_pc = "raised") <=> (\E j \in 1..Len(built) : built[j].error # None)
    /\ (entry = "Network" /\ n_pc \notin {"Encoder.__init__", "Decoder.__init__"}) =>
          /\ Len(built) = 12
          /\ CountOwner("enc_layers") = 4
          /\ CountOwner("dec_layers") = 8

C10_Witness ==
    /\ entry = "Transformer" /\ n_pc = "raised"
    /\ cfg.d_model = 3 /\ cfg.num_heads = 2
    /\ Len(built) = 1 /\ built[1].error = "AssertionError"

\* ------------------------------------------------------------- claims on the positions
\* the table entry the claims expect at row pos, column i
C4_TableEntry(pos, i) ==
    [fn |-> IF i % 2 = 0 THEN "sin" ELSE "cos",
     angle |-> [pos |-> pos, num |-> 2 * (i \div 2), den |-> decoder.d_model]]

\* the table has exactly maximum_position_encoding rows of d_model entries, and
\* columns 2k and 2k+1 use the same angle rate (sin in column 2k, cos in column 2k+1)
C4_Table ==
    LET t == decoder.pos_embedding IN
    /\ t.shape = <<1, decoder.maximum_position_encoding, decoder.d_model>>
    /\ \A pos \in 0..(decoder.maximum_position_encoding - 1) :
          /\ \A i \in 0..(decoder.d_model - 1) : t.at[<<0, pos, i>>] = C4_TableEntry(pos, i)
          /\ \A j \in 0..((decoder.d_model \div 2) - 1) :
                /\ t.at[<<0, pos, 2 * j>>].angle = t.at[<<0, pos, 2 * j + 1>>].angle
                /\ t.at[<<0, pos, 2 * j>>].fn = "sin"
                /\ t.at[<<0, pos, 2 * j + 1>>].fn = "cos"

\* C4 as claimed: for every target sequence and every position p, the vector entering
\* the first decoder layer at position p is the embedding of token p scaled by
\* sqrt(d_model) plus row p of the table.
C4_AsClaimed ==
    p_pc # "idle" =>
        /\ C4_Table
        /\ p_pc = "first_layer" =>
              \A pos \in 0..(Len(tar) - 1), i \in 0..(decoder.d_model - 1) :
                 p_x.at[<<0, pos, i>>] =
                    Entry(tar[pos + 1], i, decoder.d_model, C4_TableEntry(pos, i), "kept")

\* C4 amended: for every target sequence of length seq_len <= maximum_position_encoding
\* and every position p, the vector dropout is applied to at position p is the embedding
\* of token p scaled by sqrt(d_model) plus row p of the table; it enters the first
\* decoder layer unchanged when training is false, and with each entry zeroed or
\* rescaled by dropout when training is true; the table is as in C4_Table.
C4_PositionsAdded ==
    p_pc # "idle" =>
        /\ C4_Table
        /\ (p_pc \in {"dropout", "first_layer"}
                /\ Len(tar) <= decoder.maximum_position_encoding) =>
              \A pos \in 0..(Len(tar) - 1), i \in 0..(decoder.d_model - 1) :
                 LET e == p_x.at[<<0, pos, i>>] IN
                 /\ [e EXCEPT !.drop = "kept"] =
                       Entry(tar[pos + 1], i, decoder.d_model, C4_TableEntry(pos, i), "kept")
                 /\ e.drop = "kept" <=> (p_pc = "dropout" \/ ~p_training)
                 /\ e.drop \in {"kept", "zeroed", "rescaled"}
        /\ (p_pc = "add_positions" /\ Len(tar) <= decoder.maximum_position_encoding) =>
              BroadcastsTo(SliceRows(decoder.pos_embedding, Len(tar)), p_x)

C4_Witness ==
    /\ p_pc = "first_layer" /\ ~p_training
    /\ Len(tar) = 2 /\ tar[1] = 2 /\ tar[2] = 1
    /\ decoder.d_model = 4 /\ decoder.maximum_position_encoding = 3
    /\ p_x.at[<<0, 1, 3>>].pe = [fn |-> "cos", angle |-> [pos |-> 1, num |-> 2, den |-> 4]]
    /\ p_x.at[<<0, 1, 3>>].tok = 1

\* ------------------------------------------------------------- claims on the generator
\* the term Add([input, BN(Conv(PReLU(BN(Conv(input)))))]) for the given arguments
C5_BlockTerm(input, kernel_size, filters, strides) ==
    LET conv(t) == Term("Conv2D", <<filters, kernel_size, strides>>, <<t>>)
        bn(t) == Term("BatchNormalization", <<>>, <<t>>)
        prelu(t) == Term("PReLU", <<>>, <<t>>)
    IN Term("Add", <<>>, <<input, bn(conv(prelu(bn(conv(input)))))>>)

\* C5: resnet_block returns Add([input, BN(Conv(PReLU(BN(Conv(input)))))]) with the
\* tensor passed in as the skip operand; in TextToImage each of the four blocks
\* (kernel 3, 64 filters, stride 1) gets and returns an (8, 8, 64) tensor, so each
\* block's Add and the outer Add with gen_model are between tensors of equal shape.
C5_ResidualBlocks ==
    /\ \A j \in 1..Len(g_adds) :
          g_adds[j].site = "resnet_block" => g_adds[j].lhs = g_adds[j].input
    /\ (g_entry = "resnet_block" /\ g_pc = "returned") =>
          model.term = C5_BlockTerm(g_args.model.term, g_args.kernel_size,
                                    g_args.filters, g_args.strides)
    /\ g_entry = "TextToImage" =>
          /\ g_pc # "ValueError"
          /\ Len(g_adds) = (IF g_pc \in {"upsample", "returned"} THEN g_blocks + 1
                            ELSE g_blocks)
          /\ \A j \in 1..Len(g_adds) :
                /\ g_adds[j].input.shape = <<8, 8, 64>>
                /\ g_adds[j].lhs.shape = <<8, 8, 64>>
                /\ g_adds[j].rhs.shape = <<8, 8, 64>>
                /\ j <= 4 =>
                      /\ g_adds[j].site = "resnet_block"
                      /\ g_adds[j].input = (IF j = 1 THEN gen_model
                                            ELSE Add(g_adds[j - 1].lhs, g_adds[j - 1].rhs))
                      /\ Add(g_adds[j].lhs, g_adds[j].rhs).term =
                            C5_BlockTerm(g_adds[j].input.term, 3, 64, 1)
                /\ j = 5 => (g_adds[j].site = "TextToImage" /\ g_adds[j].lhs = gen_model)
          /\ g_pc \in {"blocks", "upsample"} => model.shape = <<8, 8, 64>>
          /\ g_pc \in {"upsample", "returned"} => g_blocks = 4

C5_Witness ==
    /\ g_entry = "TextToImage" /\ g_pc = "returned"
    /\ Len(g_adds) = 5
    /\ g_adds[4].lhs.shape = <<8, 8, 64>> /\ g_adds[4].rhs.shape = <<8, 8, 64>>
    /\ g_adds[5].lhs = gen_model
    /\ model.shape = <<64, 64, 3>>

====
